---- MODULE Spec2Model ----
(***************************************************************************)
(* Model of assets/js/i18n.js: language detection from the URL path, the   *)
(* stored preference, the load-time redirect, the language switcher UI and *)
(* the path rewrite done by switchTo for server and file: addressing.      *)
(*                                                                         *)
(* JavaScript strings are modelled as sequences of one-character strings,  *)
(* so that includes / endsWith / replace / substring / split act on        *)
(* characters exactly as in the source.                                    *)
(***************************************************************************)
EXTENDS Integers, Sequences, FiniteSets, TLC

VARIABLES protocol, path, stored, browserLang, htmlLang, htmlDir, btns,
          markup, warnings, pc, last, storageOK

vars == <<protocol, path, stored, browserLang, htmlLang, htmlDir, btns,
          markup, warnings, pc, last, storageOK>>

(***************************************************************************)
(* Bounds                                                                  *)
(***************************************************************************)
\* number of tokens after the leading "/" in an enumerated pathname
MaxTokens == 4
\* number of .lang-switch__btn elements on a page
MaxBtns == 2
\* number of console.warn calls followed in one session
MaxWarnings == 2
\* longest pathname followed in one session
MaxPathLen == 26

(***************************************************************************)
(* String literals                                                         *)
(***************************************************************************)
\* JavaScript null (localStorage miss, getCurrentLang miss, absent attribute)
Null == <<"null">>

SLASH == <<"/">>
EN == <<"e", "n">>
AR == <<"a", "r">>
FR == <<"f", "r">>
INDEX_HTML == <<"i", "n", "d", "e", "x", ".", "h", "t", "m", "l">>
PROJECTS == <<"p", "r", "o", "j", "e", "c", "t", "s">>
DETAIL_HTML == <<"d", "e", "t", "a", "i", "l", ".", "h", "t", "m", "l">>
SITE == <<"s", "i", "t", "e">>

SUPPORTED_LANGS == {EN, AR}
DEFAULT_LANG == EN

(***************************************************************************)
(* String primitives of the JavaScript runtime                             *)
(***************************************************************************)
\* String.prototype.includes
includes(s, sub) ==
    \E i \in 1..(Len(s) - Len(sub) + 1) : SubSeq(s, i, i + Len(sub) - 1) = sub

\* String.prototype.startsWith
startsWith(s, p) == Len(p) <= Len(s) /\ SubSeq(s, 1, Len(p)) = p

\* String.prototype.endsWith
endsWith(s, p) ==
    Len(p) <= Len(s) /\ SubSeq(s, Len(s) - Len(p) + 1, Len(s)) = p

\* String.prototype.lastIndexOf for a one-character needle: 0-based, -1 if none
lastIndexOf(s, ch) ==
    LET I == {i \in 1..Len(s) : s[i] = ch}
    IN  IF I = {} THEN -1 ELSE (CHOOSE i \in I : \A j \in I : j <= i) - 1

\* String.prototype.substring(0, b): a negative end is clamped to 0
substring0(s, b) == IF b <= 0 THEN <<>> ELSE SubSeq(s, 1, b)

\* path.split('/').pop(): the text after the last "/" (all of it if none)
splitPop(s) == SubSeq(s, lastIndexOf(s, "/") + 2, Len(s))

\* string conversion of a value inside a template literal or a concatenation
toStr(v) == IF v = Null THEN <<"n", "u", "l", "l">> ELSE v

\* String.prototype.toLowerCase on the letters that occur in language tags
lowerChar(c) ==
    CASE c = "A" -> "a" [] c = "R" -> "r" [] c = "E" -> "e" [] c = "N" -> "n"
      [] c = "G" -> "g" [] c = "U" -> "u" [] c = "S" -> "s" [] c = "F" -> "f"
      [] OTHER -> c

toLowerCase(s) == [i \in 1..Len(s) |-> lowerChar(s[i])]

\* navigator.language.split('-')[0]: the text before the first "-"
splitDashFirst(s) ==
    LET I == {i \in 1..Len(s) : s[i] = "-"}
    IN  IF I = {} THEN s
        ELSE SubSeq(s, 1, (CHOOSE i \in I : \A j \in I : i <= j) - 1)

\* path.replace(new RegExp(`^/${lang}`), ''): drop a leading "/lang" if there
replacePrefix(p, lang) ==
    IF startsWith(p, SLASH \o lang)
    THEN SubSeq(p, Len(lang) + 2, Len(p))
    ELSE p

(***************************************************************************)
(* I18n                                                                    *)
(***************************************************************************)
\* one language test of getCurrentLang
pathHasLang(p, lang) ==
    \/ includes(p, lang \o SLASH)
    \/ endsWith(p, lang)
    \/ includes(p, <<"\\">> \o lang \o <<"\\">>)
    \/ includes(p, lang \o SLASH \o INDEX_HTML)

getCurrentLang(p) ==
    IF pathHasLang(p, AR) THEN AR
    ELSE IF pathHasLang(p, EN) THEN EN
    ELSE Null

\* variant: the browser language is consulted before the stored preference
getPreferredLang_browserFirst(st, nav) ==
    IF toLowerCase(splitDashFirst(nav)) \in SUPPORTED_LANGS
    THEN toLowerCase(splitDashFirst(nav))
    ELSE IF st /= Null /\ st /= <<>> /\ st \in SUPPORTED_LANGS THEN st
         ELSE DEFAULT_LANG

\* variant: the stored value is returned without the SUPPORTED_LANGS test
getPreferredLang_unchecked(st, nav) ==
    IF st /= Null /\ st /= <<>> THEN st
    ELSE IF toLowerCase(splitDashFirst(nav)) \in SUPPORTED_LANGS
         THEN toLowerCase(splitDashFirst(nav))
         ELSE DEFAULT_LANG

getPreferredLang(st, nav) ==
    IF st /= Null /\ st /= <<>> /\ st \in SUPPORTED_LANGS THEN st
    ELSE IF toLowerCase(splitDashFirst(nav)) \in SUPPORTED_LANGS
         THEN toLowerCase(splitDashFirst(nav))
         ELSE DEFAULT_LANG

\* variant: the direction is always left-to-right
dirOf_ltr(lang) == <<"l", "t", "r">>

\* the direction attribute written by updateHtmlAttributes
dirOf(lang) == IF lang = AR THEN <<"r", "t", "l">> ELSE <<"l", "t", "r">>

\* variant: the other buttons lose the class but keep aria-current
updateBtn_keepsAria(b, currentLang) ==
    IF b.lang = currentLang
    THEN [b EXCEPT !.active = TRUE, !.aria = TRUE]
    ELSE [b EXCEPT !.active = FALSE]

\* updateLanguageSwitcher on one button
updateBtn(b, currentLang) ==
    IF b.lang = currentLang
    THEN [b EXCEPT !.active = TRUE, !.aria = TRUE]
    ELSE [b EXCEPT !.active = FALSE, !.aria = FALSE]

updateLanguageSwitcher(bs, currentLang) ==
    [i \in 1..Len(bs) |-> updateBtn(bs[i], currentLang)]

\* the file name switchTo keeps
fileName(p) == IF splitPop(p) = <<>> THEN INDEX_HTML ELSE splitPop(p)

\* variant: a language folder is left for a sibling of itself, not of its
\* parent
fileNewPath_sibling(p, currentLang, newLang) ==
    LET filename == fileName(p)
        currentDir == substring0(p, lastIndexOf(p, "/"))
    IN  IF endsWith(currentDir, SLASH \o toStr(currentLang)) /\ newLang = EN
        THEN currentDir \o SLASH \o filename
        ELSE currentDir \o SLASH \o newLang \o SLASH \o filename

\* switchTo, file: branch: the newPath assigned to location.href
fileNewPath(p, currentLang, newLang) ==
    LET filename == fileName(p)
        currentDir == substring0(p, lastIndexOf(p, "/"))
        parentDir == substring0(currentDir, lastIndexOf(currentDir, "/"))
    IN  IF endsWith(currentDir, SLASH \o toStr(currentLang))
        THEN IF newLang = EN
             THEN parentDir \o SLASH \o filename
             ELSE parentDir \o SLASH \o newLang \o SLASH \o filename
        ELSE IF currentLang = EN /\ newLang = AR
             THEN currentDir \o SLASH \o AR \o SLASH \o filename
             ELSE currentDir \o SLASH \o newLang \o SLASH \o filename

\* variant: the current language prefix is not removed
serverNewPath_keepsPrefix(p, currentLang, newLang) ==
    LET rooted == IF ~startsWith(p, SLASH) THEN SLASH \o p ELSE p
    IN  IF newLang = EN
        THEN IF rooted = SLASH THEN SLASH ELSE rooted
        ELSE IF rooted = SLASH THEN SLASH \o newLang \o SLASH
             ELSE SLASH \o newLang \o rooted

\* switchTo, server branch: the newPath assigned to location.href
serverNewPath(p, currentLang, newLang) ==
    LET stripped == IF currentLang /= Null THEN replacePrefix(p, currentLang)
                    ELSE p
        rooted == IF ~startsWith(stripped, SLASH) THEN SLASH \o stripped
                  ELSE stripped
    IN  IF newLang = EN
        THEN IF rooted = SLASH THEN SLASH ELSE rooted
        ELSE IF rooted = SLASH THEN SLASH \o newLang \o SLASH
             ELSE SLASH \o newLang \o rooted

\* the value switchTo assigns to location.href
switchHref(proto, p, newLang) ==
    IF proto = "file:"
    THEN fileNewPath(p, getCurrentLang(p), newLang)
    ELSE serverNewPath(p, getCurrentLang(p), newLang)

\* variant: no code is turned away
switchRejects_never(newLang) == FALSE

\* switchTo's first test: the code is not one of SUPPORTED_LANGS
switchRejects(newLang) == newLang \notin SUPPORTED_LANGS

\* variant: the early return on the current language is missing
switchSame_never(p, newLang) == FALSE

\* switchTo's second test: the page is already in the language asked for
switchSame(p, newLang) == getCurrentLang(p) = newLang

\* the pathname the browser loads for an href assigned on the page at p
resolveHref(p, href) ==
    IF startsWith(href, SLASH) THEN href
    ELSE LET base == substring0(p, lastIndexOf(p, "/") + 1)
         IN  IF startsWith(href, <<".", "/">>)
             THEN base \o SubSeq(href, 3, Len(href))
             ELSE base \o href

\* the address shown after switchTo(newLang) on the page at p
toLocale(proto, p, newLang) ==
    IF switchRejects(newLang) \/ switchSame(p, newLang)
    THEN p
    ELSE resolveHref(p, switchHref(proto, p, newLang))

(***************************************************************************)
(* Inputs                                                                  *)
(***************************************************************************)
Tokens == {SLASH, AR, EN, <<"x">>}

RECURSIVE Concats(_)
Concats(n) ==
    IF n = 0 THEN {<<>>}
    ELSE LET prev == Concats(n - 1)
         IN  prev \cup {s \o t : s \in prev, t \in Tokens}

\* pathnames made of a leading "/" and up to MaxTokens tokens, without empty
\* path segments
ShortPaths ==
    {p \in {SLASH \o s : s \in Concats(MaxTokens)} :
        ~includes(p, SLASH \o SLASH)}

\* the pathnames the documentation of the rewrite gives as examples
ExamplePaths ==
    { SLASH \o AR \o SLASH \o PROJECTS \o SLASH \o DETAIL_HTML,
      SLASH \o PROJECTS \o SLASH \o DETAIL_HTML,
      SLASH \o SITE \o SLASH \o AR \o SLASH \o INDEX_HTML,
      SLASH \o SITE \o SLASH \o INDEX_HTML }

RewritePaths == ShortPaths \cup ExamplePaths

\* the pathnames a browsing session starts from
SessionPaths ==
    { SLASH,
      SLASH \o AR \o SLASH,
      SLASH \o EN \o SLASH \o <<"x">>,
      SLASH \o <<"x">>,
      SLASH \o SITE \o SLASH \o AR \o SLASH \o INDEX_HTML }

Protocols == {"http:", "file:"}

\* values found under STORAGE_KEY: nothing, a supported code, garbage
StoredValues == {Null, EN, AR, FR}

\* values of navigator.language
BrowserLangs ==
    { AR, <<"A", "R", "-", "e", "g">>, <<"e", "n", "-", "U", "S">>, FR }

\* arguments given to switchTo
Codes == {EN, AR, FR}

Button == [lang : SUPPORTED_LANGS, active : BOOLEAN, aria : BOOLEAN]

RECURSIVE ButtonSeqs(_)
ButtonSeqs(n) ==
    IF n = 0 THEN {<<>>}
    ELSE LET prev == ButtonSeqs(n - 1)
         IN  prev \cup {Append(s, b) : s \in prev, b \in Button}

\* a page as authored: root element attributes and switch buttons
Markups ==
    [lang : {Null}, dir : {Null}, btns : ButtonSeqs(MaxBtns)]

PlainMarkup ==
    [lang |-> Null, dir |-> Null,
     btns |-> << [lang |-> EN, active |-> TRUE, aria |-> FALSE],
                 [lang |-> AR, active |-> FALSE, aria |-> FALSE] >>]

(***************************************************************************)
(* State machine                                                           *)
(***************************************************************************)
NoOp == [op |-> "start", arg |-> Null, from |-> Null, href |-> Null,
         ret |-> Null, threw |-> FALSE]

\* the states of a page in which I18n can be called through window.AMD.I18n:
\* "ready" after init(), "unbound" when init() threw before bindEvents()
Callable == {"ready", "unbound"}

Init ==
    /\ protocol \in Protocols
    /\ path \in SessionPaths
    /\ stored \in StoredValues
    /\ browserLang \in BrowserLangs
    /\ markup = PlainMarkup
    /\ htmlLang = markup.lang
    /\ htmlDir = markup.dir
    /\ btns = markup.btns
    /\ warnings = 0
    /\ pc = "loading"
    /\ last = NoOp
    /\ storageOK = TRUE

InitRewrite ==
    /\ protocol \in Protocols
    /\ path \in RewritePaths
    /\ stored = Null
    /\ browserLang = FR
    /\ markup = PlainMarkup
    /\ htmlLang = markup.lang
    /\ htmlDir = markup.dir
    /\ btns = markup.btns
    /\ warnings = 0
    /\ pc = "loading"
    /\ last = NoOp
    /\ storageOK = TRUE

InitControls ==
    /\ protocol \in Protocols
    /\ path \in SessionPaths
    /\ stored = Null
    /\ browserLang = FR
    /\ markup \in Markups
    /\ htmlLang = markup.lang
    /\ htmlDir = markup.dir
    /\ btns = markup.btns
    /\ warnings = 0
    /\ pc = "loading"
    /\ last = NoOp
    /\ storageOK = TRUE

\* a session in a browser where localStorage may be unavailable: getItem and
\* setItem then throw
InitStorage ==
    /\ protocol \in Protocols
    /\ path \in SessionPaths
    /\ stored \in StoredValues
    /\ browserLang = AR
    /\ markup = PlainMarkup
    /\ htmlLang = markup.lang
    /\ htmlDir = markup.dir
    /\ btns = markup.btns
    /\ warnings = 0
    /\ pc = "loading"
    /\ last = NoOp
    /\ storageOK \in BOOLEAN

\* a session that starts with nothing or a supported code stored, with other
\* tabs of the same origin open
InitTabs ==
    /\ protocol \in Protocols
    /\ path \in SessionPaths
    /\ stored \in {Null} \cup SUPPORTED_LANGS
    /\ browserLang \in BrowserLangs
    /\ markup = PlainMarkup
    /\ htmlLang = markup.lang
    /\ htmlDir = markup.dir
    /\ btns = markup.btns
    /\ warnings = 0
    /\ pc = "loading"
    /\ last = NoOp
    /\ storageOK = TRUE

\* a full-page transition to the page at pathname p
navigate(p) ==
    /\ Len(p) <= MaxPathLen
    /\ path' = p
    /\ pc' = "loading"
    /\ htmlLang' = markup.lang
    /\ htmlDir' = markup.dir
    /\ btns' = markup.btns

\* init(): detectAndRedirect(), then bindEvents()
detectAndRedirect ==
    /\ pc = "loading"
    /\ LET currentLang == getCurrentLang(path)
       IN  IF currentLang /= Null /\ ~storageOK
           THEN \* savePreference throws: init() ends before bindEvents()
                /\ pc' = "unbound"
                /\ last' = [NoOp EXCEPT !.op = "initThrew", !.from = path,
                                        !.threw = TRUE]
                /\ UNCHANGED <<path, stored, htmlLang, htmlDir, btns>>
           ELSE IF currentLang /= Null
           THEN /\ stored' = currentLang
                /\ htmlLang' = currentLang
                /\ htmlDir' = dirOf(currentLang)
                /\ btns' = updateLanguageSwitcher(btns, currentLang)
                /\ pc' = "ready"
                /\ last' = [NoOp EXCEPT !.op = "routed", !.from = path]
                /\ UNCHANGED path
           ELSE IF (path = SLASH \/ path = <<>>) /\ ~storageOK
           THEN \* getPreferredLang throws: no redirect, no bindEvents()
                /\ pc' = "unbound"
                /\ last' = [NoOp EXCEPT !.op = "initThrew", !.from = path,
                                        !.threw = TRUE]
                /\ UNCHANGED <<path, stored, htmlLang, htmlDir, btns>>
           ELSE IF path = SLASH \/ path = <<>>
           THEN LET href == <<".", "/">>
                            \o getPreferredLang(stored, browserLang) \o SLASH
                IN  /\ navigate(resolveHref(path, href))
                    /\ last' = [NoOp EXCEPT !.op = "redirect", !.from = path,
                                            !.href = href]
                    /\ UNCHANGED stored
           ELSE /\ pc' = "ready"
                /\ last' = [NoOp EXCEPT !.op = "unrouted", !.from = path]
                /\ UNCHANGED <<path, stored, htmlLang, htmlDir, btns>>
    /\ UNCHANGED <<protocol, browserLang, markup, warnings, storageOK>>

switchTo(newLang) ==
    /\ pc \in Callable
    /\ IF switchRejects(newLang)
       THEN /\ warnings < MaxWarnings
            /\ warnings' = warnings + 1
            /\ last' = [NoOp EXCEPT !.op = "warn", !.arg = newLang,
                                    !.from = path]
            /\ UNCHANGED <<path, stored, htmlLang, htmlDir, btns, pc>>
       ELSE IF switchSame(path, newLang)
       THEN /\ last' = [NoOp EXCEPT !.op = "same", !.arg = newLang,
                                    !.from = path]
            /\ UNCHANGED <<path, stored, htmlLang, htmlDir, btns, pc,
                           warnings>>
       ELSE IF ~storageOK
       THEN \* savePreference throws before the new path is computed
            /\ last' = [NoOp EXCEPT !.op = "switchThrew", !.arg = newLang,
                                    !.from = path, !.threw = TRUE]
            /\ UNCHANGED <<path, stored, htmlLang, htmlDir, btns, pc,
                           warnings>>
       ELSE LET href == switchHref(protocol, path, newLang)
            IN  /\ stored' = newLang
                /\ navigate(resolveHref(path, href))
                /\ last' = [NoOp EXCEPT !.op = "navigate", !.arg = newLang,
                                        !.from = path, !.href = href]
                /\ UNCHANGED warnings
    /\ UNCHANGED <<protocol, browserLang, markup, storageOK>>

\* the click listener bindEvents puts on button i
click(i) ==
    /\ pc = "ready"
    /\ i \in 1..Len(btns)
    /\ btns[i].lang /= Null /\ btns[i].lang /= <<>>
    /\ switchTo(btns[i].lang)

\* a call of I18n.getPreferredLang through window.AMD.I18n
callGetPreferredLang ==
    /\ pc \in Callable
    /\ IF storageOK
       THEN last' = [NoOp EXCEPT !.op = "getPreferredLang", !.from = path,
                                 !.ret = getPreferredLang(stored, browserLang)]
       ELSE \* localStorage.getItem throws
            last' = [NoOp EXCEPT !.op = "preferredThrew", !.from = path,
                                 !.threw = TRUE]
    /\ UNCHANGED <<protocol, path, stored, browserLang, htmlLang, htmlDir,
                   btns, markup, warnings, pc, storageOK>>

\* the visitor reloads the page
reload ==
    /\ pc \in Callable
    /\ navigate(path)
    /\ last' = [NoOp EXCEPT !.op = "reload", !.from = path]
    /\ UNCHANGED <<protocol, stored, browserLang, markup, warnings, storageOK>>

\* another tab of the same origin loads the page at p: its
\* detectAndRedirect saves the language of p under the shared STORAGE_KEY
otherTabLoad(p) ==
    /\ storageOK
    /\ getCurrentLang(p) /= Null
    /\ stored' = getCurrentLang(p)
    /\ last' = [NoOp EXCEPT !.op = "otherTabLoad", !.from = p]
    /\ UNCHANGED <<protocol, path, browserLang, htmlLang, htmlDir, btns,
                   markup, warnings, pc, storageOK>>

\* another tab of the same origin, on the page at p, runs switchTo(newLang)
\* as far as its savePreference
otherTabSwitch(p, newLang) ==
    /\ storageOK
    /\ ~switchRejects(newLang)
    /\ ~switchSame(p, newLang)
    /\ stored' = newLang
    /\ last' = [NoOp EXCEPT !.op = "otherTabSwitch", !.arg = newLang,
                            !.from = p]
    /\ UNCHANGED <<protocol, path, browserLang, htmlLang, htmlDir, btns,
                   markup, warnings, pc, storageOK>>

Next ==
    \/ detectAndRedirect
    \/ \E c \in Codes : switchTo(c)
    \/ \E i \in 1..MaxBtns : click(i)
    \/ callGetPreferredLang
    \/ reload

Spec == Init /\ [][Next]_vars

SpecRewrite == InitRewrite /\ [][Next]_vars

SpecControls == InitControls /\ [][Next]_vars

SpecStorage == InitStorage /\ [][Next]_vars

NextTabs ==
    \/ Next
    \/ \E p \in SessionPaths : otherTabLoad(p)
    \/ \E p \in SessionPaths, c \in Codes : otherTabSwitch(p, c)

SpecTabs == InitTabs /\ [][NextTabs]_vars

(***************************************************************************)
(* Properties of the path rewrite (SpecRewrite)                            *)
(***************************************************************************)
\* the last step was a call of switchTo
SwitchOps == {"warn", "same", "navigate"}

\* C1: in server mode, the address reached by switching a non-root address
\* to a supported language L is one from which getCurrentLang derives L.
C1_RoundTrip ==
    (last.op = "navigate" /\ protocol /= "file:" /\ last.from /= SLASH)
        => getCurrentLang(path) = last.arg

\* C2: in both modes, once switchTo(L) has rewritten the address, rewriting
\* the result to L again gives the same address.
C2_Idempotent ==
    (last.op = "navigate") => toLocale(protocol, path, last.arg) = path

\* the server-mode rewrite as a relation between the path p, its current
\* language cur, the target t and the result r
C7_IsRewrite(p, cur, t, r) ==
    \E s \in {SubSeq(p, i, Len(p)) : i \in 1..(Len(p) + 1)} :
        /\ \/ cur /= Null /\ p = SLASH \o cur \o s
           \/ ~(cur /= Null /\ startsWith(p, SLASH \o cur)) /\ s = p
        /\ LET q == IF s /= <<>> /\ Head(s) = "/" THEN s ELSE SLASH \o s
           IN  \/ t = DEFAULT_LANG /\ r = q
               \/ t /= DEFAULT_LANG /\ q = SLASH /\ r = SLASH \o t \o SLASH
               \/ t /= DEFAULT_LANG /\ q /= SLASH /\ r = SLASH \o t \o q

C8_IsRewrite(p, cur, t, r) ==
    \E k \in 1..Len(p) :
        /\ p[k] = "/"
        /\ \A j \in (k + 1)..Len(p) : p[j] /= "/"
        /\ LET d == SubSeq(p, 1, k - 1)
               f0 == SubSeq(p, k + 1, Len(p))
               f == IF f0 = <<>> THEN INDEX_HTML ELSE f0
               inLangFolder == cur /= Null /\ endsWith(d, SLASH \o cur)
               parent == SubSeq(d, 1, Len(d) - Len(cur) - 1)
           IN  /\ (inLangFolder /\ t = DEFAULT_LANG)
                     => r = parent \o SLASH \o f
               /\ (inLangFolder /\ t /= DEFAULT_LANG)
                     => r = parent \o SLASH \o t \o SLASH \o f
               /\ (~inLangFolder /\ t /= DEFAULT_LANG)
                     => r = d \o SLASH \o t \o SLASH \o f

NoLangFolder(p) ==
    \A l \in SUPPORTED_LANGS :
        ~includes(substring0(p, lastIndexOf(p, "/") + 1), SLASH \o l \o SLASH)

\* C9: in file: mode, on a page with no language-named folder in its path
\* (and whose address does not resolve to the non-default language),
\* switchTo('en') does not navigate and leaves the address as it was.
C9_DefaultToDefaultNoOp ==
    (last.op \in SwitchOps /\ protocol = "file:" /\ last.arg = DEFAULT_LANG
     /\ NoLangFolder(last.from) /\ getCurrentLang(last.from) /= AR)
        => (last.op /= "navigate" /\ path = last.from)

(***************************************************************************)
(* Properties of a browsing session (Spec)                                 *)
(***************************************************************************)
\* C3: a call of switchTo with a code outside SUPPORTED_LANGS changes
\* nothing (preference, address, document attributes, buttons, no
\* navigation) and logs exactly one warning.
C3_UnsupportedNoOp ==
    [][(last'.op \in SwitchOps /\ last'.arg \notin SUPPORTED_LANGS) =>
          /\ UNCHANGED <<protocol, path, stored, browserLang, htmlLang,
                         htmlDir, btns, markup, pc>>
          /\ warnings' = warnings + 1]_vars

C3_Witness ==
    /\ last.op = "warn"
    /\ last.arg = FR
    /\ warnings = 1
    /\ stored = AR

\* C4: switchTo(L) with L the language resolved from the current address
\* leaves the stored preference and the address as they are and does not
\* navigate, under http: and under file:.
C4_SameLocaleNoOp ==
    [][(last'.op \in SwitchOps /\ last'.arg \in SUPPORTED_LANGS
        /\ last'.arg = getCurrentLang(path)) =>
          UNCHANGED <<stored, path, pc, htmlLang, htmlDir, btns>>]_vars

C4_Witness ==
    /\ last.op = "same"
    /\ last.arg = AR
    /\ getCurrentLang(path) = AR
    /\ protocol = "file:"
    /\ pc = "ready"

PrimaryIs(tag, l) ==
    /\ Len(tag) >= Len(l)
    /\ \A i \in 1..Len(l) : tag[i] \in {l[i]} \cup {c \in {"A", "R", "E", "N"} : lowerChar(c) = l[i]}
    /\ (Len(tag) = Len(l) \/ tag[Len(l) + 1] = "-")

\* C6: getPreferredLang returns a supported language for every stored value
\* and browser language: the stored value if it is supported, otherwise the
\* primary subtag of the browser language if that is supported, otherwise en.
C6_PreferredLang ==
    (last.op = "getPreferredLang") =>
        /\ last.ret \in SUPPORTED_LANGS
        /\ stored \in SUPPORTED_LANGS => last.ret = stored
        /\ \A l \in SUPPORTED_LANGS :
              (stored \notin SUPPORTED_LANGS /\ PrimaryIs(browserLang, l))
                  => last.ret = l
        /\ (stored \notin SUPPORTED_LANGS
            /\ \A l \in SUPPORTED_LANGS : ~PrimaryIs(browserLang, l))
              => last.ret = DEFAULT_LANG

C6_Witness ==
    /\ last.op = "getPreferredLang"
    /\ stored = FR
    /\ browserLang = <<"A", "R", "-", "e", "g">>
    /\ last.ret = AR

(***************************************************************************)
(* Properties of the language switcher (SpecControls)                      *)
(***************************************************************************)
\* button i carries the active class and aria-current
Marked(i) == btns[i].active /\ btns[i].aria

\* C10, as stated: after any page load, whatever buttons the page has and
\* whatever their authored state, exactly one button carries both the active
\* class and aria-current and every other button carries neither.
C10_ExactlyOneMarked ==
    (last.op \in {"routed", "unrouted"}) =>
        \E i \in 1..Len(btns) :
            /\ Marked(i)
            /\ \A j \in (1..Len(btns)) \ {i} :
                  ~btns[j].active /\ ~btns[j].aria

\* C10, amended: after a page load that resolved a language from the
\* address, the buttons bound to that language carry both the active class
\* and aria-current and every other button carries neither, so that exactly
\* one button is marked when exactly one is bound to that language.
C10_MarkedIffCurrent ==
    (last.op = "routed") =>
        /\ \A i \in 1..Len(btns) :
              IF btns[i].lang = getCurrentLang(path)
              THEN btns[i].active /\ btns[i].aria
              ELSE ~btns[i].active /\ ~btns[i].aria
        /\ Cardinality({i \in 1..Len(btns) : btns[i].lang = getCurrentLang(path)}) = 1
              => Cardinality({i \in 1..Len(btns) : Marked(i)}) = 1

C10_Witness ==
    /\ last.op = "routed"
    /\ Len(btns) = 2
    /\ getCurrentLang(path) = AR
    /\ markup.btns[1].lang = EN /\ ~markup.btns[1].active /\ markup.btns[1].aria
    /\ markup.btns[2].lang = AR /\ ~markup.btns[2].active
    /\ Marked(2) /\ ~btns[1].aria

(***************************************************************************)
(* Properties of a session without usable storage (SpecStorage)            *)
(***************************************************************************)
\* C11: when localStorage access throws, the language routing still
\* completes as if nothing were stored: no exception leaves init /
\* detectAndRedirect, getPreferredLang or switchTo.
C11_NoThrow == ~last.threw

(***************************************************************************)
(* Properties of the load-time routing (Spec)                              *)
(***************************************************************************)
\* the buttons bs show the language l: class and aria-current on exactly the
\* buttons bound to l
ShowsLang(bs, l) ==
    \A i \in 1..Len(bs) :
        /\ bs[i].active <=> (bs[i].lang = l)
        /\ bs[i].aria <=> (bs[i].lang = l)

\* C12: the load of an address with no language that is not "/" changes
\* nothing (no navigation, no preference write, attributes and buttons as
\* they were); the load of an address with a language stores that language,
\* sets lang and dir and the buttons to it, and does not navigate.
C12_LoadEffects ==
    [][(pc = "loading") =>
          LET l == getCurrentLang(path)
          IN  /\ (l = Null /\ path /= SLASH) =>
                    /\ UNCHANGED <<protocol, path, stored, htmlLang, htmlDir,
                                   btns, warnings>>
                    /\ pc' = "ready"
              /\ (l /= Null) =>
                    /\ stored' = l
                    /\ htmlLang' = l
                    /\ htmlDir' = IF l = AR THEN <<"r", "t", "l">>
                                  ELSE <<"l", "t", "r">>
                    /\ Len(btns') = Len(btns)
                    /\ \A i \in 1..Len(btns) : btns'[i].lang = btns[i].lang
                    /\ ShowsLang(btns', l)
                    /\ path' = path
                    /\ pc' = "ready"]_vars

C12_Witness ==
    /\ last.op = "unrouted"
    /\ path = SLASH \o <<"x">>
    /\ stored = FR
    /\ htmlLang = Null
    /\ btns = markup.btns
    /\ pc = "ready"

(***************************************************************************)
(* Properties of the stored preference with several tabs (SpecTabs)        *)
(***************************************************************************)
\* C13: over any interleaving of page loads and switchTo calls, in this tab
\* and in others, the stored preference is absent or a supported language,
\* and once present it is never absent again.
C13_PreferenceInvariant ==
    /\ [](stored = Null \/ stored \in SUPPORTED_LANGS)
    /\ [][stored /= Null => stored' /= Null]_vars

C13_Witness ==
    /\ last.op = "warn"
    /\ last.arg = FR
    /\ stored = AR
    /\ getCurrentLang(path) = EN
    /\ pc = "ready"

(***************************************************************************)
(* Properties of the language detection (SpecRewrite)                      *)
(***************************************************************************)
\* no "/"-separated segment of the pathname p is a supported language code
NoLangSegment(p) ==
    \A l \in SUPPORTED_LANGS : ~includes(p \o SLASH, SLASH \o l \o SLASH)

\* C14: an address in which no supported code is a path segment of its own
\* resolves to no language: its load is not treated as a load of a language
\* page, also when a longer segment name merely ends in ar or en.
C14_UnspecifiedWithoutSegment ==
    (last.op \in {"routed", "unrouted", "redirect"} /\ NoLangSegment(last.from))
        => last.op /= "routed"

====
